---- MODULE Spec2Model ----
(***************************************************************************)
(* A model of streamlit_qa_dashboard_course_development_starter_app.py:    *)
(* one Streamlit session of the QA dashboard.  Every interaction (upload,  *)
(* clearing the upload, adding or removing an item of a multiselect,       *)
(* typing a search text) re-runs the whole script top to bottom; an        *)
(* uncaught Python exception ends the run at the line that raised it.      *)
(*                                                                         *)
(* Tables are records [columns, rows, cats]: the set of column names, the  *)
(* sequence of rows (each row a function from the column names to values)  *)
(* and, per categorical column, the ordered list of its categories.        *)
(* Timestamps are modelled as whole days before "today"; text cells that   *)
(* the search reads are sequences of one-character strings.                *)
(*                                                                         *)
(* pandas as modelled: read_csv raises ValueError when a parse_dates       *)
(* column is not in the header; astype("category") orders the categories   *)
(* as the sorted distinct values; value_counts and groupby on categorical  *)
(* columns report every category, also with count 0; value_counts leaves   *)
(* out the rows that pd.cut put in no bin.  Dates that do not parse and    *)
(* empty cells are not modelled.                                           *)
(***************************************************************************)
EXTENDS Integers, Sequences, FiniteSets, TLC

VARIABLES uploaded, df, sel, q, out

vars == <<uploaded, df, sel, q, out>>

(***************************************************************************)
(* Bounds of the model.                                                    *)
(***************************************************************************)
\* rows per table: the generator's n_rows (250 in the source) and the
\* longest uploaded file
MaxRows == 2
\* items selected over the five multiselects together
MaxSelected == 2

(***************************************************************************)
(* Sequence helpers.                                                       *)
(***************************************************************************)
Range(s) == {s[i] : i \in 1..Len(s)}

SeqsUpTo(S, lo, hi) == UNION {[1..n -> S] : n \in lo..hi}

RECURSIVE SumSeq(_)
SumSeq(s) == IF s = <<>> THEN 0 ELSE Head(s) + SumSeq(Tail(s))

\* mask.sum(): the number of TRUE entries of a sequence of booleans
Count(mask) == Cardinality({i \in 1..Len(mask) : mask[i]})

(***************************************************************************)
(* Text.  str.lower() and the `in` substring test of lines 172-176.        *)
(***************************************************************************)
LowerChar(c) ==
    CASE c = "A" -> "a" [] c = "E" -> "e" [] c = "I" -> "i" [] c = "M" -> "m"
      [] c = "O" -> "o" [] c = "P" -> "p" [] c = "Q" -> "q" [] c = "S" -> "s"
      [] c = "T" -> "t" [] c = "U" -> "u" [] c = "Y" -> "y"
      [] OTHER -> c

Lower(s) == [i \in 1..Len(s) |-> LowerChar(s[i])]

\* Python's `a in b` on strings
Contains(a, b) ==
    \E i \in 0..(Len(b) - Len(a)) : SubSeq(b, i + 1, i + Len(a)) = a

(***************************************************************************)
(* Column names.                                                           *)
(***************************************************************************)
RequiredColumns ==
    {"issue_id", "course_name", "unit", "item_id", "item_type", "status",
     "severity", "reporter", "assignee", "created_at", "updated_at"}

OptionalColumns == {"browser", "environment", "notes", "sla_days"}

DerivedColumns == {"age_days", "sla_breached"}

\* c.strip().lower() of line 18, on the header spellings the model uploads
StripLower(c) ==
    CASE c = " Status "   -> "status"
      [] c = "SEVERITY"   -> "severity"
      [] c = "Created_At" -> "created_at"
      [] OTHER            -> c

cat_cols == {"status", "severity", "item_type", "course_name", "assignee", "reporter"}

parse_dates == {"created_at", "updated_at"}

(***************************************************************************)
(* Categories.                                                             *)
(***************************************************************************)
statuses == <<"Open", "In Progress", "Fixed", "Verified", "Closed">>

\* Python's order (by code point) of the strings the categorical columns hold
LexOrder ==
    <<"Alex", "Author", "Closed", "Course 1", "Course 2", "Course 3",
      "Critical", "Fixed", "High", "In Progress", "Jordan", "Kim", "Low",
      "Medium", "Open", "QA", "Quiz", "Reading", "Reviewer", "Riley", "Sam",
      "Student", "Verified", "Video">>

\* sorted(S) for a set of those strings
Sorted(S) == SelectSeq(LexOrder, LAMBDA x : x \in S)

\* position of x in the sequence s (0 when absent)
IndexOf(s, x) == IF x \in Range(s) THEN CHOOSE i \in 1..Len(s) : s[i] = x ELSE 0

sla_map == [Critical |-> 2, High |-> 5, Medium |-> 10, Low |-> 15]

(***************************************************************************)
(* example_data: the synthetic table.                                      *)
(***************************************************************************)
Digits == <<"0", "1", "2", "3", "4", "5", "6", "7", "8", "9">>

\* str(n) of a natural number, as text
RECURSIVE Decimal(_)
Decimal(n) ==
    IF n < 10 THEN <<Digits[n + 1]>>
    ELSE Decimal(n \div 10) \o <<Digits[(n % 10) + 1]>>

\* f"ISSUE-{1000+i}"
IssueId(i) == <<"I", "S", "S", "U", "E", "-">> \o Decimal(1000 + i)

\* f"ITEM-{n}"
ItemId(n) == <<"I", "T", "E", "M", "-">> \o Decimal(n)

\* [f"Course {i+1}" for i in range(n_courses)], for up to three courses
courses(n_courses) == {<<"Course 1", "Course 2", "Course 3">>[i] : i \in 1..n_courses}

n_courses_default == 3

\* The values rng draws for one row.  The seeded generator's stream is not
\* computed here: each row's draw is any element of this sample of the
\* ranges of lines 39-56 (created: days before today, 0..39; delta: days
\* from created to updated, 0..14).
DrawPool ==
    { [course_name |-> "Course 1", unit |-> "Unit 1", item_no |-> 7,
       item_type |-> "Quiz", status |-> "In Progress", severity |-> "Critical",
       reporter |-> "QA", assignee |-> "Alex", created |-> 3, delta |-> 2,
       notes |-> <<"t", "y", "p", "o">>, browser |-> "Chrome",
       environment |-> "Staging"],
      [course_name |-> "Course 2", unit |-> "Unit 1", item_no |-> 42,
       item_type |-> "Video", status |-> "Open", severity |-> "Low",
       reporter |-> "Author", assignee |-> "Sam", created |-> 16, delta |-> 14,
       notes |-> <<"a", "u", "d", "i", "o">>, browser |-> "Safari",
       environment |-> "Production"],
      [course_name |-> "Course 1", unit |-> "Unit 2", item_no |-> 42,
       item_type |-> "Reading", status |-> "Fixed", severity |-> "Critical",
       reporter |-> "Reviewer", assignee |-> "Alex", created |-> 0, delta |-> 0,
       notes |-> <<"t", "y", "p", "o">>, browser |-> "Chrome",
       environment |-> "Staging"],
      [course_name |-> "Course 3", unit |-> "Unit 2", item_no |-> 7,
       item_type |-> "Quiz", status |-> "Closed", severity |-> "Medium",
       reporter |-> "Student", assignee |-> "Sam", created |-> 39, delta |-> 5,
       notes |-> <<"a", "u", "d", "i", "o">>, browser |-> "Safari",
       environment |-> "Production"] }

GeneratedColumns == RequiredColumns \cup {"notes", "browser", "environment"}

\* lines 38-57: row i of the generator, from its draws d
GeneratedRow(i, d) ==
    [c \in GeneratedColumns |->
        CASE c = "issue_id"    -> IssueId(i)
          [] c = "item_id"     -> ItemId(d.item_no)
          [] c = "created_at"  -> d.created
          [] c = "updated_at"  -> d.created - d.delta
          [] c = "course_name" -> d.course_name
          [] c = "unit"        -> d.unit
          [] c = "item_type"   -> d.item_type
          [] c = "status"      -> d.status
          [] c = "severity"    -> d.severity
          [] c = "reporter"    -> d.reporter
          [] c = "assignee"    -> d.assignee
          [] c = "notes"       -> d.notes
          [] c = "browser"     -> d.browser
          [] c = "environment" -> d.environment]

\* a row with column c set to v (df[c] = ... for one row)
WithColumn(r, c, v) ==
    [k \in (DOMAIN r) \cup {c} |-> IF k = c THEN v ELSE r[k]]

\* lines 61-64: sla_days from severity, age_days from created_at (the whole
\* days from created_at to now), sla_breached from the two
DeriveSla(r) ==
    LET r1 == WithColumn(r, "sla_days", sla_map[r["severity"]])
        r2 == WithColumn(r1, "age_days", r1["created_at"])
    IN  WithColumn(r2, "sla_breached", r2["age_days"] > r2["sla_days"])

\* example_data(n_courses, n_rows), the rng's draws given as `draws`;
\* line 59 makes status an ordered categorical over the five statuses
example_data(n_courses, draws) ==
    [columns |-> GeneratedColumns \cup {"sla_days", "age_days", "sla_breached"},
     rows    |-> [i \in 1..Len(draws) |-> DeriveSla(GeneratedRow(i - 1, draws[i]))],
     cats    |-> [c \in {"status"} |-> statuses]]

\* the draws of one call: n_rows rows, each course among the n_courses
Draws(n_courses, n_rows) ==
    {d \in [1..n_rows -> DrawPool] :
        \A i \in 1..n_rows : d[i].course_name \in courses(n_courses)}

(***************************************************************************)
(* Uploaded files.  A file is [columns, rows]: the header's column names   *)
(* as spelled in the file, and the rows keyed by those names.              *)
(***************************************************************************)
NoFile == [columns |-> {}, rows |-> <<>>]

AllColumns == RequiredColumns \cup OptionalColumns \cup DerivedColumns

\* the headers the model uploads
Headers ==
    { RequiredColumns,
      RequiredColumns \cup OptionalColumns,
      AllColumns,
      (AllColumns \ {"status", "severity"}) \cup {" Status ", "SEVERITY"},
      (AllColumns \ {"created_at"}) \cup {"Created_At"},
      AllColumns \ {"created_at"},
      AllColumns \ {"unit"},
      AllColumns \ {"item_id"},
      AllColumns \ {"notes"},
      AllColumns \ {"sla_days"} }

UploadRow(id, item, note, course, un, st, sev, who, created, updated, sla, age, breached) ==
    [issue_id |-> id, item_id |-> item, notes |-> note, course_name |-> course,
     unit |-> un, item_type |-> "Quiz", status |-> st, severity |-> sev,
     reporter |-> "QA", assignee |-> who, created_at |-> created,
     updated_at |-> updated, browser |-> "Chrome", environment |-> "Staging",
     sla_days |-> sla, age_days |-> age, sla_breached |-> breached]

\* the rows the model uploads (each cell is read only if the header has its
\* column): an sla_days that is not the severity's, a stale sla_breached,
\* an issue dated tomorrow and one a thousand days old are among them
UploadPool ==
    { UploadRow(<<"Q", "A", "-", "0", "0", "1">>, ItemId(7), <<"T", "y", "p", "o">>,
                "Course 1", "Unit 1", "Open", "Critical", "Alex", 3, 1, 2, 3, TRUE),
      UploadRow(<<"Q", "A", "-", "2">>, ItemId(42), <<"a", "u", "d", "i", "o">>,
                "Course 2", "Unit 2", "In Progress", "Low", "Sam", 16, 2, 7, 16, FALSE),
      UploadRow(<<"Q", "A", "-", "3">>, ItemId(42), <<"T", "y", "p", "o">>,
                "Course 1", "Unit 2", "Verified", "High", "Alex", -1, -1, 5, -1, FALSE),
      UploadRow(<<"Q", "A", "-", "4">>, ItemId(7), <<"a", "u", "d", "i", "o">>,
                "Course 2", "Unit 1", "Closed", "Medium", "Sam", 1000, 990, 10, 1000, TRUE) }

FileOf(header, cells) ==
    [columns |-> header,
     rows    |-> [i \in 1..Len(cells) |-> [c \in header |-> cells[i][StripLower(c)]]]]

\* the cells uploaded under every header: a one-row and a longest file
HeaderCells ==
    {[i \in 1..n |-> CHOOSE u \in UploadPool :
                        u.status = <<"Open", "In Progress", "Closed">>[((i - 1) % 3) + 1]]
        : n \in {1, MaxRows}}

\* every header with those cells, and the full header with every file of
\* one to MaxRows rows
Files ==
    {FileOf(h, cells) : h \in Headers, cells \in HeaderCells}
    \cup {FileOf(AllColumns, cells) : cells \in SeqsUpTo(UploadPool, 1, MaxRows)}

(***************************************************************************)
(* load_data.                                                              *)
(***************************************************************************)
NoTable == [columns |-> {}, rows |-> <<>>, cats |-> <<>>]

\* pd.read_csv(file, parse_dates=[...]) of line 16: the named columns are
\* looked up in the header as the file spells it, and a missing one raises
read_csv(file) ==
    IF parse_dates \subseteq file.columns
    THEN [err |-> "none",
          table |-> [columns |-> file.columns, rows |-> file.rows, cats |-> <<>>]]
    ELSE [err |-> "ValueError", table |-> NoTable]

\* line 18: df.columns = [c.strip().lower() for c in df.columns]
NormalizeColumns(t) ==
    [t EXCEPT !.columns = {StripLower(c) : c \in t.columns},
              !.rows = [i \in 1..Len(t.rows) |->
                          [n \in {StripLower(c) : c \in t.columns} |->
                              t.rows[i][CHOOSE c \in t.columns : StripLower(c) = n]]]]

Column(t, c) == {t.rows[i][c] : i \in 1..Len(t.rows)}

\* lines 20-23: astype("category"); a column that is categorical already
\* keeps its categories, another gets its sorted distinct values
CoerceCategories(t) ==
    [t EXCEPT !.cats = [c \in cat_cols \cap t.columns |->
                          IF c \in DOMAIN t.cats THEN t.cats[c]
                          ELSE Sorted(Column(t, c))]]

\* load_data(file); draws are the generator's draws, used when no file is given
load_data(file, draws) ==
    LET got == IF file.columns # {} THEN read_csv(file)
               ELSE [err |-> "none", table |-> example_data(n_courses_default, draws)]
    IN  IF got.err # "none" THEN got
        ELSE [err |-> "none", table |-> CoerceCategories(NormalizeColumns(got.table))]

(***************************************************************************)
(* The sidebar's widgets (lines 72-77).                                    *)
(***************************************************************************)
FilterFields == <<"course_name", "unit", "status", "severity", "assignee">>

NoSelection == [f \in Range(FilterFields) |-> {}]

\* the options a multiselect offers: the column's distinct values, and for
\* status the column's categories
Options(t, f) ==
    IF f = "status" THEN Range(t.cats["status"]) ELSE Column(t, f)

Selected(s) == SumSeq([i \in 1..Len(FilterFields) |-> Cardinality(s[FilterFields[i]])])

(***************************************************************************)
(* Apply filters (lines 79-85).                                            *)
(***************************************************************************)
\* isin without the test for an empty selection: nothing chosen keeps nothing
IsInAlways(rows, f, chosen) ==
    SelectSeq(rows, LAMBDA r : r[f] \in chosen)

\* fdf[fdf[f].isin(chosen)], skipped when nothing is chosen
IsIn(rows, f, chosen) ==
    IF chosen # {} THEN SelectSeq(rows, LAMBDA r : r[f] \in chosen) ELSE rows

FilterRows(rows, s) ==
    LET f1 == IsIn(rows, "course_name", s["course_name"])
        f2 == IsIn(f1, "unit", s["unit"])
        f3 == IsIn(f2, "status", s["status"])
        f4 == IsIn(f3, "severity", s["severity"])
    IN  IsIn(f4, "assignee", s["assignee"])

\* line 80 copies df, so the filters leave df as loaded; an in-place variant
\* would cut df down to the rows kept
FilterInPlace(t, s) ==
    [df |-> [t EXCEPT !.rows = FilterRows(t.rows, s)], fdf |-> FilterRows(t.rows, s)]

ApplyFilters(t, s) ==
    [df |-> t, fdf |-> FilterRows(t.rows, s)]

(***************************************************************************)
(* KPI cards (lines 90-94) and the SLA overview (lines 103-107).           *)
(***************************************************************************)
\* a mask that forgets the issues in progress
open_only_mask(r) == r["status"] = "Open"

open_mask(r) == r["status"] \in {"Open", "In Progress"}

KpiCards(fdf) ==
    [open_issues   |-> Count([n \in 1..Len(fdf) |-> open_mask(fdf[n])]),
     verified      |-> Count([n \in 1..Len(fdf) |-> fdf[n]["status"] = "Verified"]),
     closed        |-> Count([n \in 1..Len(fdf) |-> fdf[n]["status"] = "Closed"]),
     critical_open |-> Count([n \in 1..Len(fdf) |->
                                 fdf[n]["severity"] = "Critical" /\ open_mask(fdf[n])])]

\* round(1) of 100*b/n, in tenths of a percent, ties to even
BreachRate(b, n) ==
    LET x == 1000 * b
        lo == x \div n
        twice == 2 * (x % n)
    IN  IF twice < n THEN lo
        ELSE IF twice > n THEN lo + 1
        ELSE IF lo % 2 = 0 THEN lo ELSE lo + 1

\* line 106: the mean of sla_breached over the open rows of each severity
\* category (a category with no open row has no mean)
SlaBySeverity(t, fdf) ==
    LET open == SelectSeq(fdf, open_mask)
    IN  [i \in 1..Len(t.cats["severity"]) |->
            LET sev == t.cats["severity"][i]
                n == Count([j \in 1..Len(open) |-> open[j]["severity"] = sev])
                b == Count([j \in 1..Len(open) |->
                               open[j]["severity"] = sev /\ open[j]["sla_breached"]])
            IN  [severity |-> sev,
                 breach_rate |-> IF n = 0 THEN "NaN" ELSE BreachRate(b, n)]]

SlaOverview(t, fdf) ==
    [sla_breaches |-> Count([n \in 1..Len(fdf) |-> fdf[n]["sla_breached"] /\ open_mask(fdf[n])]),
     sla_by_sev   |-> SlaBySeverity(t, fdf)]

(***************************************************************************)
(* Trends and distributions (lines 121-145).                               *)
(***************************************************************************)
\* issues created per day: one entry per date that has a row
CreatedDaily(fdf) ==
    [d \in {fdf[i]["created_at"] : i \in 1..Len(fdf)} |->
        Count([n \in 1..Len(fdf) |-> fdf[n]["created_at"] = d])]

\* value_counts of the categorical status column counts every category of
\* the column; the chart lists them in the order of df's categories
StatusDistribution(t, fdf) ==
    [i \in 1..Len(t.cats["status"]) |->
        [status |-> t.cats["status"][i],
         count  |-> Count([n \in 1..Len(fdf) |-> fdf[n]["status"] = t.cats["status"][i]])]]

\* groupby over two categorical columns: every pair of categories
SeverityByCourse(t, fdf) ==
    [p \in Range(t.cats["course_name"]) \X Range(t.cats["severity"]) |->
        Count([n \in 1..Len(fdf) |-> fdf[n]["course_name"] = p[1] /\ fdf[n]["severity"] = p[2]])]

(***************************************************************************)
(* Aging and work in progress (lines 150-162).                             *)
(***************************************************************************)
age_bin_edges == <<-1, 2, 5, 10, 20, 999>>

\* the labels of line 150, in ASCII
age_labels == <<"<=2d", "3-5d", "6-10d", "11-20d", ">20d">>

\* pd.cut: the label of the half-open bin (lo, hi] holding a, none outside
Cut(a) ==
    IF \E i \in 1..Len(age_labels) : age_bin_edges[i] < a /\ a <= age_bin_edges[i + 1]
    THEN age_labels[CHOOSE i \in 1..Len(age_labels) :
                        age_bin_edges[i] < a /\ a <= age_bin_edges[i + 1]]
    ELSE "NaN"

\* value_counts of the bucket column: every label has a count, and a row
\* whose age is in no bin is in no count
AgeDistribution(fdf) ==
    [b \in Range(age_labels) |-> Count([n \in 1..Len(fdf) |-> Cut(fdf[n]["age_days"]) = b])]

\* tuple comparison: a sorts before b
KeyBefore(a, b) ==
    \E k \in 1..Len(a) : a[k] < b[k] /\ \A j \in 1..(k - 1) : a[j] = b[j]

\* sort_values: s in ascending order of the keys (keys[i] is the tuple of
\* sort keys of s[i]); rows with equal keys keep their order
SortByKeys(s, keys) ==
    LET ahead(i) == {j \in 1..Len(s) :
                        \/ KeyBefore(keys[j], keys[i])
                        \/ keys[j] = keys[i] /\ j < i}
    IN  [k \in 1..Len(s) |-> s[CHOOSE i \in 1..Len(s) : Cardinality(ahead(i)) = k - 1]]

WipColumns ==
    {"issue_id", "course_name", "unit", "item_type", "severity", "status",
     "assignee", "age_days", "sla_breached", "updated_at", "notes"}

\* line 160: the open rows, by severity category then age, both descending
WipTable(t, fdf) ==
    LET open == SelectSeq(fdf, open_mask)
        sorted == SortByKeys(open,
                     [i \in 1..Len(open) |->
                        <<0 - IndexOf(t.cats["severity"], open[i]["severity"]),
                          0 - open[i]["age_days"]>>])
    IN  [i \in 1..Len(sorted) |-> [c \in WipColumns |-> sorted[i][c]]]

(***************************************************************************)
(* Detail explorer (lines 168-178).                                        *)
(***************************************************************************)
\* the lambda of lines 174-176 on row r: `or` reads notes only when
\* issue_id does not match, and item_id only when neither does
RowMatches(r, q_lower) ==
    \/ Contains(q_lower, Lower(r["issue_id"]))
    \/ Contains(q_lower, Lower(r["notes"]))
    \/ Contains(q_lower, Lower(r["item_id"]))

\* the lambda raises KeyError on a row where it reads a missing column
RowRaises(r, q_lower) ==
    /\ ~Contains(q_lower, Lower(r["issue_id"]))
    /\ ~Contains(q_lower, Lower(r["notes"]))
    /\ "item_id" \notin DOMAIN r

\* a search that forgets q.lower()
SearchCaseSensitive(fdf, query) ==
    IF query # <<>> THEN SelectSeq(fdf, LAMBDA r : RowMatches(r, query)) ELSE fdf

\* lines 170-177: temp is a copy of fdf, cut down when q is not empty
Search(fdf, query) ==
    IF query # <<>> THEN SelectSeq(fdf, LAMBDA r : RowMatches(r, Lower(query))) ELSE fdf

\* line 178: newest update first (updated_at counts days before today)
DetailTable(temp) ==
    SortByKeys(temp, [i \in 1..Len(temp) |-> <<temp[i]["updated_at"]>>])

(***************************************************************************)
(* One run of the script.  `out` holds what the run rendered: the sections *)
(* reached (rendered), the exception that ended it (err, at line), and the *)
(* tables and numbers of the sections reached.                             *)
(***************************************************************************)
NotRendered == <<>>

Blank ==
    [err |-> "none", line |-> 0, rendered |-> {}, fdf |-> NotRendered,
     kpi |-> NotRendered, sla |-> NotRendered, created_daily |-> NotRendered,
     status_bar |-> NotRendered, sev_course |-> NotRendered,
     age_dist |-> NotRendered, wip |-> NotRendered, temp |-> NotRendered,
     detail |-> NotRendered]

\* lines 79-178 on the loaded table t with the widgets' values s and query
RunSections(t, s, query) ==
    LET af == ApplyFilters(t, s)
        fdf == af.fdf
        o1 == [Blank EXCEPT !.rendered = {"load", "widgets", "filters", "kpi"},
                            !.fdf = fdf,
                            !.kpi = KpiCards(fdf)]
        o2 == [o1 EXCEPT !.rendered = @ \cup {"sla", "trends"},
                         !.sla = SlaOverview(t, fdf),
                         !.created_daily = CreatedDaily(fdf),
                         !.status_bar = StatusDistribution(af.df, fdf),
                         !.sev_course = SeverityByCourse(t, fdf)]
        o3 == [o2 EXCEPT !.rendered = @ \cup {"age"},
                         !.age_dist = AgeDistribution(fdf)]
        o4 == [o3 EXCEPT !.rendered = @ \cup {"wip", "search"},
                         !.wip = WipTable(t, fdf)]
        temp == Search(fdf, query)
        o5 == [o4 EXCEPT !.rendered = @ \cup {"detail"},
                         !.temp = temp,
                         !.detail = DetailTable(temp)]
        raised(o, at) == [o EXCEPT !.err = "KeyError", !.line = at]
    IN  IF "sla_breached" \notin t.columns
        THEN [df |-> af.df, out |-> raised(o1, 103)]
        ELSE IF "age_days" \notin t.columns
        THEN [df |-> af.df, out |-> raised(o2, 150)]
        ELSE IF ~(WipColumns \subseteq t.columns)
        THEN [df |-> af.df, out |-> raised(o3, 160)]
        ELSE IF query # <<>> /\ \E i \in 1..Len(fdf) : RowRaises(fdf[i], Lower(query))
        THEN [df |-> af.df, out |-> raised(o4, 173)]
        ELSE [df |-> af.df, out |-> o5]

\* the whole script on the result ld of load_data (line 70)
RunScript(ld, s, query) ==
    IF ld.err # "none"
    THEN [df |-> NoTable, out |-> [Blank EXCEPT !.err = ld.err, !.line = 16]]
    ELSE IF ~(Range(FilterFields) \subseteq ld.table.columns)
    THEN [df |-> ld.table,
          out |-> [Blank EXCEPT
                     !.err = "KeyError",
                     !.rendered = {"load"},
                     !.line = 72 + CHOOSE i \in 1..Len(FilterFields) :
                                     /\ FilterFields[i] \notin ld.table.columns
                                     /\ \A j \in 1..(i - 1) :
                                            FilterFields[j] \in ld.table.columns]]
    ELSE RunSections(ld.table, s, query)

(***************************************************************************)
(* The session.  Every interaction re-runs the script.  Uploads and the    *)
(* removal of the upload are explored from the states in which no filter   *)
(* is chosen and the search box is empty: the run depends on the table and *)
(* on the widgets' values only, so an upload made with filters chosen ends *)
(* in a state that is also reached by uploading first and choosing after.  *)
(***************************************************************************)
Queries == {<<"T", "Y", "P">>, <<"0", "0", "1">>}

Rerun(ld, s, query) ==
    LET r == RunScript(ld, s, query)
    IN  /\ df' = r.df
        /\ sel' = s
        /\ q' = query
        /\ out' = r.out

\* the first run of a session: no file, nothing selected, nothing typed
Init ==
    /\ uploaded = NoFile
    /\ sel = NoSelection
    /\ q = <<>>
    /\ \E draws \in Draws(n_courses_default, MaxRows) :
          LET r == RunScript(load_data(NoFile, draws), NoSelection, <<>>)
          IN  df = r.df /\ out = r.out

\* st.file_uploader receives a file
Upload(file) ==
    /\ sel = NoSelection
    /\ q = <<>>
    /\ uploaded' = file
    /\ Rerun(load_data(file, <<>>), NoSelection, <<>>)

\* the file is removed from the uploader: the demo table is shown again
\* (the draws are chosen afresh, which covers the memoised table)
ClearUpload ==
    /\ sel = NoSelection
    /\ q = <<>>
    /\ uploaded.columns # {}
    /\ uploaded' = NoFile
    /\ \E draws \in Draws(n_courses_default, MaxRows) :
          Rerun(load_data(NoFile, draws), NoSelection, <<>>)

\* st.cache_data: a run on the same input gets the table loaded before
Cached == [err |-> "none", table |-> df]

\* what the multiselect of field f offers in the page as rendered
Offered(f) == IF "widgets" \in out.rendered THEN Options(df, f) ELSE {}

\* an option of one multiselect is picked
Select(f, v) ==
    /\ v \in Offered(f) \ sel[f]
    /\ Selected(sel) < MaxSelected
    /\ Rerun(Cached, [sel EXCEPT ![f] = @ \cup {v}], q)
    /\ UNCHANGED uploaded

\* a picked option is removed
Deselect(f, v) ==
    /\ "widgets" \in out.rendered
    /\ v \in sel[f]
    /\ Rerun(Cached, [sel EXCEPT ![f] = @ \ {v}], q)
    /\ UNCHANGED uploaded

\* the search box of line 169 is edited
Type(text) ==
    /\ "search" \in out.rendered
    /\ text # q
    /\ Rerun(Cached, sel, text)
    /\ UNCHANGED uploaded

Next ==
    \/ \E file \in Files : Upload(file)
    \/ ClearUpload
    \/ \E i \in 1..Len(FilterFields) : \E v \in Offered(FilterFields[i]) :
          Select(FilterFields[i], v)
    \/ \E i \in 1..Len(FilterFields) : \E v \in sel[FilterFields[i]] :
          Deselect(FilterFields[i], v)
    \/ \E text \in Queries \cup {<<>>} : Type(text)

Spec == Init /\ [][Next]_vars

(***************************************************************************)
(* Properties.                                                             *)
(***************************************************************************)
\* row r passes the selections s: in every field with a non-empty
\* selection its value is one of the selected
PassesSelections(s, r) ==
    \A i \in 1..Len(FilterFields) :
        s[FilterFields[i]] = {} \/ r[FilterFields[i]] \in s[FilterFields[i]]

FieldFiltered(rows, s) == SelectSeq(rows, LAMBDA r : PassesSelections(s, r))

IsOpen(r) == r["status"] = "Open" \/ r["status"] = "In Progress"

\* C1: whenever the filters ran, the filtered table is exactly the rows of
\* the loaded table whose value in every field with a non-empty selection
\* is selected; with nothing selected it is the loaded table; it never has
\* more rows than the loaded table.
C1_FilterIsExactSubset ==
    "filters" \in out.rendered =>
        /\ out.fdf = FieldFiltered(df.rows, sel)
        /\ (sel = NoSelection => out.fdf = df.rows)
        /\ Len(out.fdf) <= Len(df.rows)

\* C1 witness: filters on two fields keep some rows of an uploaded table and
\* drop others
C1_Witness ==
    /\ "filters" \in out.rendered
    /\ uploaded.columns # {}
    /\ Cardinality({i \in 1..Len(FilterFields) : sel[FilterFields[i]] # {}}) = 2
    /\ Len(out.fdf) > 0
    /\ Len(out.fdf) < Len(df.rows)

\* C2: after a load that returned a table, every row carries age_days,
\* sla_days and sla_breached, and sla_breached is true exactly when
\* age_days > sla_days.
C2_DerivedFieldsAfterLoad ==
    "load" \in out.rendered =>
        \A i \in 1..Len(df.rows) :
            /\ {"age_days", "sla_days", "sla_breached"} \subseteq DOMAIN df.rows[i]
            /\ df.rows[i]["sla_breached"] = (df.rows[i]["age_days"] > df.rows[i]["sla_days"])

\* C3: once a table with all required columns is loaded, the run completes
\* without error whatever is selected or typed.
C3_NoErrorAfterLoad ==
    ("load" \in out.rendered /\ RequiredColumns \subseteq df.columns) => out.err = "none"

\* C4: an upload that lacks a required column after normalization fails at
\* load: an error is raised there and no table is returned.
C4_MissingColumnFailsLoad ==
    ( /\ uploaded.columns # {}
      /\ ~(RequiredColumns \subseteq {StripLower(c) : c \in uploaded.columns}) )
    => (out.err # "none" /\ out.line = 16 /\ df.columns = {})

\* the sla_days column of the input, if it has one
InputSlaColumns == {c \in uploaded.columns : StripLower(c) = "sla_days"}

SlaTargetOf(severity) ==
    CASE severity = "Critical" -> 2
      [] severity = "High"     -> 5
      [] severity = "Medium"   -> 10
      [] severity = "Low"      -> 15

\* C5: in the loaded table sla_days is the severity's target when the input
\* has no sla_days column, and the input's value when it has one.
C5_SlaDaysFromSeverityOrInput ==
    "load" \in out.rendered =>
        \A i \in 1..Len(df.rows) :
            /\ "sla_days" \in DOMAIN df.rows[i]
            /\ IF InputSlaColumns = {}
               THEN df.rows[i]["sla_days"] = SlaTargetOf(df.rows[i]["severity"])
               ELSE \A c \in InputSlaColumns : df.rows[i]["sla_days"] = uploaded.rows[i][c]

\* C6: the status distribution has one entry for each of the five statuses,
\* in the fixed order, and its counts sum to the filtered table's row count.
C6_StatusDistributionComplete ==
    "trends" \in out.rendered =>
        /\ [i \in 1..Len(out.status_bar) |-> out.status_bar[i].status]
              = <<"Open", "In Progress", "Fixed", "Verified", "Closed">>
        /\ SumSeq([i \in 1..Len(out.status_bar) |-> out.status_bar[i].count])
              = Len(out.fdf)

\* the bucket the histogram's labels give an age
LabelledBucket(a) ==
    IF a <= 2 THEN "<=2d"
    ELSE IF a <= 5 THEN "3-5d"
    ELSE IF a <= 10 THEN "6-10d"
    ELSE IF a <= 20 THEN "11-20d"
    ELSE ">20d"

FiveBuckets == {"<=2d", "3-5d", "6-10d", "11-20d", ">20d"}

\* C7: the age histogram has an entry for each of the five buckets, every
\* row is counted in the bucket of its age_days (any age <= 2 in the first,
\* any age > 20 in the last), and the counts sum to the row count.
C7_AgeHistogramCountsEveryRow ==
    "age" \in out.rendered =>
        /\ DOMAIN out.age_dist = FiveBuckets
        /\ \A b \in FiveBuckets :
              out.age_dist[b] = Len(SelectSeq(out.fdf, LAMBDA r : LabelledBucket(r["age_days"]) = b))
        /\ Len(out.fdf)
              = SumSeq([i \in 1..Len(age_labels) |-> out.age_dist[age_labels[i]]])

\* C8: a run on the same input leaves the loaded table as it was, and its
\* filtered view is the loaded table cut by the selections of that run,
\* whatever was selected before.
C8_FilteringLeavesLoadedTable ==
    [][uploaded' = uploaded =>
          /\ df' = df
          /\ ("filters" \in out'.rendered => out'.fdf = FieldFiltered(df.rows, sel'))
          /\ (sel' = sel /\ "filters" \in out.rendered /\ "filters" \in out'.rendered
                 => out'.fdf = out.fdf)]_vars

\* C8 witness: selections were made on the demo table: two items are
\* selected, a search is typed, and the view holds fewer rows than the table
C8_Witness ==
    /\ uploaded.columns = {}
    /\ Selected(sel) >= 2
    /\ q # <<>>
    /\ "filters" \in out.rendered
    /\ Len(out.fdf) < Len(df.rows)
    /\ Len(df.rows) = MaxRows

\* C9: the four KPI counts are the numbers of rows of the filtered table
\* that are open (Open or In Progress), Verified, Closed, and Critical and
\* open; so critical open <= open and open + verified + closed <= rows.
C9_KpiCounts ==
    "kpi" \in out.rendered =>
        /\ out.kpi.open_issues = Len(SelectSeq(out.fdf, IsOpen))
        /\ out.kpi.verified = Len(SelectSeq(out.fdf, LAMBDA r : r["status"] = "Verified"))
        /\ out.kpi.closed = Len(SelectSeq(out.fdf, LAMBDA r : r["status"] = "Closed"))
        /\ out.kpi.critical_open =
              Len(SelectSeq(out.fdf, LAMBDA r : r["severity"] = "Critical" /\ IsOpen(r)))
        /\ out.kpi.critical_open <= out.kpi.open_issues
        /\ out.kpi.open_issues + out.kpi.verified + out.kpi.closed <= Len(out.fdf)

\* C9 witness: an issue in progress and a critical open one are counted
C9_Witness ==
    /\ "kpi" \in out.rendered
    /\ out.kpi.open_issues = 2
    /\ out.kpi.critical_open = 1
    /\ \E i \in 1..Len(out.fdf) : out.fdf[i]["status"] = "In Progress"

\* row r holds the lower-cased text somewhere in issue_id, notes or item_id
HoldsText(r, text) ==
    \E c \in {"issue_id", "notes", "item_id"} \cap DOMAIN r :
        Contains(Lower(text), Lower(r[c]))

TextFiltered(rows, text) ==
    IF text = <<>> THEN rows ELSE SelectSeq(rows, LAMBDA r : HoldsText(r, text))

\* C10 as stated: the detail rows are the field-filtered rows that hold the
\* query, and the aggregates are computed from the rows left by the query
C10_SearchFeedsAggregates ==
    "detail" \in out.rendered =>
        /\ out.temp = TextFiltered(FieldFiltered(df.rows, sel), q)
        /\ out.kpi.open_issues = Len(SelectSeq(out.temp, IsOpen))
        /\ out.kpi.verified = Len(SelectSeq(out.temp, LAMBDA r : r["status"] = "Verified"))
        /\ out.kpi.closed = Len(SelectSeq(out.temp, LAMBDA r : r["status"] = "Closed"))
        /\ SumSeq([i \in 1..Len(out.status_bar) |-> out.status_bar[i].count])
              = Len(out.temp)

\* the sequences a and b hold the same rows the same number of times
SameRows(a, b) ==
    /\ Len(a) = Len(b)
    /\ \A r \in Range(a) \cup Range(b) :
          Len(SelectSeq(a, LAMBDA x : x = r)) = Len(SelectSeq(b, LAMBDA x : x = r))

\* C10 amended: the detail table holds exactly the field-filtered rows that
\* hold the query (all of them when the query is empty); the query cuts the
\* detail table only, and the KPI counts and the status counts are those of
\* the field-filtered rows whatever is typed.
C10_SearchCutsDetailOnly ==
    /\ "detail" \in out.rendered =>
          /\ out.temp = TextFiltered(FieldFiltered(df.rows, sel), q)
          /\ SameRows(out.detail, out.temp)
    /\ "trends" \in out.rendered =>
          /\ out.kpi.open_issues = Len(SelectSeq(FieldFiltered(df.rows, sel), IsOpen))
          /\ out.kpi.verified =
                Len(SelectSeq(FieldFiltered(df.rows, sel), LAMBDA r : r["status"] = "Verified"))
          /\ out.kpi.closed =
                Len(SelectSeq(FieldFiltered(df.rows, sel), LAMBDA r : r["status"] = "Closed"))
          /\ SumSeq([i \in 1..Len(out.status_bar) |-> out.status_bar[i].count])
                = Len(FieldFiltered(df.rows, sel))

\* C10 witness: a query typed in capitals keeps some rows of the detail
\* table and drops others, under a field filter
C10_Witness ==
    /\ "detail" \in out.rendered
    /\ q = <<"T", "Y", "P">>
    /\ sel # NoSelection
    /\ Len(out.temp) > 0
    /\ Len(out.temp) < Len(out.fdf)
====
